---- MODULE Spec2Model ----
(***************************************************************************)
(* Model of daemon/src/linux/proc_tracker.cpp: the split-tunnel process    *)
(* tracker (ProcFs, ProcTracker).  The engine's fields and the kernel      *)
(* state it drives (cgroup membership, ip rules, routes, firewall anchors, *)
(* rp_filter, the netlink socket) are the variables; every public          *)
(* operation is one atomic action, computed by an operator over a record   *)
(* of the engine and kernel state so that operations can be composed.      *)
(***************************************************************************)
EXTENDS Integers, Sequences, FiniteSets, TLC

\* ---------------------------------------------------------------- bounds
MaxPid == 2        \* process ids are 1..MaxPid
MaxQueue == 1      \* proc events the netlink socket buffers before dropping
MaxFds == 2        \* file descriptors available for netlink sockets
MaxTreePid == 3    \* process ids of the process-tree specification
MaxDepth == 4      \* frames of the descendant recursion the stack has room for

Pids == 1..MaxPid
TreePids == 1..MaxTreePid
AllPids == Pids \cup TreePids
Fds == 1..MaxFds
NoFd == 0 - 1      \* the value -1 of _sockFd / a null _readNotifier

\* ------------------------------------------------------- input domains
Paths == {"/a", "/b"}
NoScan == [interfaceName |-> "", ipAddress |-> "", gatewayIp |-> ""]
ScanEth == [interfaceName |-> "eth0", ipAddress |-> "ip1", gatewayIp |-> "gw1"]
ScanWlan == [interfaceName |-> "wlan0", ipAddress |-> "ip2", gatewayIp |-> "gw1"]
ScanNoGw == [interfaceName |-> "eth0", ipAddress |-> "ip1", gatewayIp |-> ""]
NetScans == {NoScan, ScanEth, ScanWlan, ScanNoGw}
NoTunnel == [dev |-> "", local |-> "", remote |-> ""]
Tunnels == {NoTunnel,
            [dev |-> "tun0", local |-> "t1", remote |-> "r1"],
            [dev |-> "tun0", local |-> "t2", remote |-> "r1"]}
Addresses == {"ip1", "ip2", "t1", "t2"}
RpValues == {"1", "2"}

\* cgroup.procs files (Path::VpnExclusionsFile, Path::VpnOnlyFile,
\* Path::ParentVpnExclusionsFile): one net_cls hierarchy, so a process is in
\* exactly one of them
VpnExclusionsFile == "piavpnexclusions"
VpnOnlyFile == "piavpnonly"
ParentVpnExclusionsFile == "parent"
kRtableName == "bypass"
kVpnOnlyRtableName == "vpnOnly"
Tables == {kRtableName, kVpnOnlyRtableName}

VARIABLES
    \* /proc
    alive,      \* set of pids that have a /proc entry
    exe,        \* pid -> target of /proc/<pid>/exe
    ppid,       \* pid -> PPid of /proc/<pid>/status (0: a process outside Pids)
    \* kernel state driven by the engine
    cgroup,     \* pid -> the cgroup.procs file the process is listed in
    rules,      \* table -> address -> number of "from <address> lookup <table>" rules
    peakRules,  \* table -> largest number of rules the table held at any step
    routes,     \* table -> default route <<via, dev>>, or <<>>
    anchors,    \* enabled firewall anchors
    transIp,    \* rules of the anchor 100.transIp (output interfaces masqueraded)
    rpFilter,   \* net.ipv4.conf.all.rp_filter
    openSocks,  \* netlink sockets of the engine that are open
    events,     \* proc events buffered in the subscribed socket
    \* ProcTracker fields
    sockFd, readNotifier, exclusionsMap, vpnOnlyMap,
    previousNetScan, previousTunnelDeviceLocalAddress, previousRPFilter,
    \* the frames of a descendant recursion in progress (addPidToCgroup or
    \* removePidFromCgroup followed call by call), innermost last
    stack,
    \* history: the operation that ran last
    lastOp

procVars == <<alive, exe, ppid>>
vars == <<alive, exe, ppid, cgroup, rules, peakRules, routes, anchors, transIp,
          rpFilter, openSocks, events, sockFd, readNotifier, exclusionsMap,
          vpnOnlyMap, previousNetScan, previousTunnelDeviceLocalAddress,
          previousRPFilter, stack, lastOp>>

\* The engine and the kernel state it writes, as one record
Cur ==
    [cgroup |-> cgroup, rules |-> rules, peakRules |-> peakRules, routes |-> routes,
     anchors |-> anchors, transIp |-> transIp, rpFilter |-> rpFilter,
     openSocks |-> openSocks, events |-> events,
     sockFd |-> sockFd, readNotifier |-> readNotifier,
     exclusionsMap |-> exclusionsMap, vpnOnlyMap |-> vpnOnlyMap,
     previousNetScan |-> previousNetScan,
     previousTunnelDeviceLocalAddress |-> previousTunnelDeviceLocalAddress,
     previousRPFilter |-> previousRPFilter]

Commit(r) == \E s \in {r} :
    /\ cgroup' = s.cgroup
    /\ rules' = s.rules
    /\ peakRules' = s.peakRules
    /\ routes' = s.routes
    /\ anchors' = s.anchors
    /\ transIp' = s.transIp
    /\ rpFilter' = s.rpFilter
    /\ openSocks' = s.openSocks
    /\ events' = s.events
    /\ sockFd' = s.sockFd
    /\ readNotifier' = s.readNotifier
    /\ exclusionsMap' = s.exclusionsMap
    /\ vpnOnlyMap' = s.vpnOnlyMap
    /\ previousNetScan' = s.previousNetScan
    /\ previousTunnelDeviceLocalAddress' = s.previousTunnelDeviceLocalAddress
    /\ previousRPFilter' = s.previousRPFilter

\* ------------------------------------------------------------- ProcFs
pathForPid(pid) == IF pid \in alive THEN exe[pid] ELSE ""

pidsForPath(path) == {pid \in alive : pathForPid(pid) = path}

isChildOf(parentPid, pid) == pid \in alive /\ ppid[pid] = parentPid

childPidsOf(parentPid) == {pid \in alive : isChildOf(parentPid, pid)}

\* OriginalNetworkScan::isValid
isValid(scan) ==
    scan.interfaceName # "" /\ scan.ipAddress # "" /\ scan.gatewayIp # ""

\* ------------------------------------------------------ cgroup writer
\* a write of a pid that has exited fails and is only logged
writePidToCGroup(cg, pid, cGroupPath) ==
    IF pid \in alive THEN [cg EXCEPT ![pid] = cGroupPath] ELSE cg

\* a writer that writes the pids it is given and none of their children
addPidsToCgroupFlat(cg, pids, cGroupPath) ==
    [p \in DOMAIN cg |-> IF p \in pids \cap alive THEN cGroupPath ELSE cg[p]]

RECURSIVE addPidsToCgroup(_, _, _)
addPidsToCgroup(cg, pids, cGroupPath) ==
    IF pids = {} THEN cg
    ELSE LET pid == CHOOSE p \in pids : TRUE
             written == writePidToCGroup(cg, pid, cGroupPath)
             withChildren == addPidsToCgroup(written, childPidsOf(pid), cGroupPath)
         IN addPidsToCgroup(withChildren, pids \ {pid}, cGroupPath)

addChildPidsToCgroup(cg, parentPid, cGroupPath) ==
    addPidsToCgroup(cg, childPidsOf(parentPid), cGroupPath)

addPidToCgroup(cg, pid, cGroupPath) ==
    addChildPidsToCgroup(writePidToCGroup(cg, pid, cGroupPath), pid, cGroupPath)

RECURSIVE removePidsFromCgroup(_, _, _)
removePidsFromCgroup(cg, pids, cGroupPath) ==
    IF pids = {} THEN cg
    ELSE LET pid == CHOOSE p \in pids : TRUE
             written == writePidToCGroup(cg, pid, cGroupPath)
             withChildren == removePidsFromCgroup(written, childPidsOf(pid), cGroupPath)
         IN removePidsFromCgroup(withChildren, pids \ {pid}, cGroupPath)

removeChildPidsFromCgroup(cg, parentPid, cGroupPath) ==
    removePidsFromCgroup(cg, childPidsOf(parentPid), cGroupPath)

\* a pid leaves a cgroup by being written to the parent cgroup
removePidFromCgroup(cg, pid, cGroupPath) ==
    removeChildPidsFromCgroup(writePidToCGroup(cg, pid, cGroupPath), pid, cGroupPath)

\* ---------------------------------------------------- rule controller
\* replaceAnchor of 100.transIp in the NAT table
updateMasquerade(s, interfaceName) ==
    IF interfaceName = ""
    THEN [s EXCEPT !.transIp = {}]
    ELSE [s EXCEPT !.transIp = {interfaceName, "tun+"}]

\* ip route replace default via <gw> dev <if> table <name>
updateRoutes(s, gatewayIp, interfaceName, tunnelDeviceName, tunnelDeviceRemoteAddress) ==
    LET bypass == IF gatewayIp = "" \/ interfaceName = ""
                  THEN s.routes[kRtableName]
                  ELSE <<gatewayIp, interfaceName>>
        vpnOnly == IF tunnelDeviceRemoteAddress = "" \/ tunnelDeviceName = ""
                   THEN s.routes[kVpnOnlyRtableName]
                   ELSE <<tunnelDeviceRemoteAddress, tunnelDeviceName>>
    IN [s EXCEPT !.routes = [t \in Tables |->
                                IF t = kRtableName THEN bypass ELSE vpnOnly]]

RECURSIVE Sum(_, _)
Sum(f, S) == IF S = {} THEN 0
             ELSE LET x == CHOOSE y \in S : TRUE IN f[x] + Sum(f, S \ {x})

\* number of source-IP rules that look up table t
RuleCount(r, t) == Sum(r[t], Addresses)

\* ip rule add from <ip> lookup <table> pri 101
addRoutingPolicyForSourceIp(s, ipAddress, routingTableName) ==
    IF ipAddress = "" THEN s
    ELSE LET r == [s.rules EXCEPT ![routingTableName][ipAddress] = @ + 1]
             n == RuleCount(r, routingTableName)
         IN [s EXCEPT !.rules = r,
                      !.peakRules[routingTableName] = IF n > @ THEN n ELSE @]

\* a removal that removes nothing
removeRoutingPolicyNoop(s, ipAddress, routingTableName) == s

\* ip rule del from <ip> lookup <table> pri 101 (fails when there is no such rule)
removeRoutingPolicyForSourceIp(s, ipAddress, routingTableName) ==
    IF ipAddress = "" \/ s.rules[routingTableName][ipAddress] = 0 THEN s
    ELSE [s EXCEPT !.rules[routingTableName][ipAddress] = @ - 1]

\* QString::toInt of the output of sysctl -n
toInt(out) == IF out = "2" THEN 2 ELSE IF out = "1" THEN 1 ELSE 0

setupReversePathFiltering(s, sysctlOk) ==
    IF sysctlOk
    THEN IF toInt(s.rpFilter) # 2
         THEN [s EXCEPT !.previousRPFilter = s.rpFilter, !.rpFilter = "2"]
         ELSE s
    ELSE [s EXCEPT !.previousRPFilter = ""]

teardownReversePathFiltering(s) ==
    IF s.previousRPFilter # ""
    THEN [s EXCEPT !.rpFilter = s.previousRPFilter]
    ELSE s

setupFirewall(s) == [s EXCEPT !.anchors = @ \cup {"100.tagPkts", "100.transIp"}]

teardownFirewall(s) == [s EXCEPT !.anchors = @ \ {"100.transIp", "100.tagPkts"}]

updateNetwork(s, params, tunnelDeviceName, tunnelDeviceLocalAddress, tunnelDeviceRemoteAddress) ==
    LET scan == params.splitTunnelNetScan
        prev == s.previousNetScan
        s1 == IF prev.interfaceName # scan.interfaceName
              THEN updateMasquerade(s, scan.interfaceName)
              ELSE s
        s2 == IF prev.ipAddress # scan.ipAddress
              THEN addRoutingPolicyForSourceIp(
                       removeRoutingPolicyForSourceIp(s1, prev.ipAddress, kRtableName),
                       scan.ipAddress, kRtableName)
              ELSE s1
        s3 == IF s.previousTunnelDeviceLocalAddress # tunnelDeviceLocalAddress
              THEN addRoutingPolicyForSourceIp(
                       removeRoutingPolicyForSourceIp(
                           s2, s.previousTunnelDeviceLocalAddress, kVpnOnlyRtableName),
                       tunnelDeviceLocalAddress, kVpnOnlyRtableName)
              ELSE s2
        s4 == updateRoutes(s3, scan.gatewayIp, scan.interfaceName, tunnelDeviceName,
                           tunnelDeviceRemoteAddress)
    IN [s4 EXCEPT !.previousNetScan = scan,
                  !.previousTunnelDeviceLocalAddress = tunnelDeviceLocalAddress]

\* ------------------------------------------------------- reconciler
\* AppMap (path -> set of pids) operations
EmptyMap == [a \in {} |-> {}]

\* an insert that keeps the pids already recorded under the path
mapInsertKeep(appMap, app, pids) ==
    [a \in DOMAIN appMap \cup {app} |->
        IF a = app THEN (IF a \in DOMAIN appMap THEN appMap[a] ELSE {}) \cup pids
        ELSE appMap[a]]

mapInsert(appMap, app, pids) ==
    [a \in DOMAIN appMap \cup {app} |-> IF a = app THEN pids ELSE appMap[a]]

mapRemove(appMap, apps) == [a \in DOMAIN appMap \ apps |-> appMap[a]]

mapPids(appMap) == UNION {appMap[a] : a \in DOMAIN appMap}

\* appMap names the field: "exclusionsMap" or "vpnOnlyMap"
removeApps(s, keepApps, appMap) ==
    LET gone == DOMAIN s[appMap] \ keepApps
        pids == UNION {s[appMap][a] : a \in gone}
    IN [s EXCEPT !.cgroup = removePidsFromCgroup(@, pids, ParentVpnExclusionsFile),
                 ![appMap] = mapRemove(@, gone)]

RECURSIVE addApps(_, _, _, _)
addApps(s, apps, appMap, cGroupPath) ==
    IF apps = {} THEN s
    ELSE LET app == CHOOSE a \in apps : TRUE
             found == pidsForPath(app)
             s1 == [s EXCEPT ![appMap] = mapInsert(@, app, found),
                             !.cgroup = addPidsToCgroup(@, found, cGroupPath)]
         IN addApps(s1, apps \ {app}, appMap, cGroupPath)

\* updateApps without the gate on the network scan
updateAppsUngated(s, excludedApps, vpnOnlyApps) ==
    LET s1 == removeApps(s, excludedApps, "exclusionsMap")
        s2 == addApps(s1, excludedApps, "exclusionsMap", VpnExclusionsFile)
        s3 == removeApps(s2, vpnOnlyApps, "vpnOnlyMap")
    IN addApps(s3, vpnOnlyApps, "vpnOnlyMap", VpnOnlyFile)

updateApps(s, excludedApps, vpnOnlyApps) ==
    LET excluded == IF ~isValid(s.previousNetScan) THEN {} ELSE excludedApps
        s1 == removeApps(s, excluded, "exclusionsMap")
        s2 == addApps(s1, excluded, "exclusionsMap", VpnExclusionsFile)
        s3 == removeApps(s2, vpnOnlyApps, "vpnOnlyMap")
    IN addApps(s3, vpnOnlyApps, "vpnOnlyMap", VpnOnlyFile)

removeAllApps(s) ==
    LET s1 == removeApps(s, {}, "exclusionsMap")
        s2 == removeApps(s1, {}, "vpnOnlyMap")
    IN [s2 EXCEPT !.exclusionsMap = EmptyMap, !.vpnOnlyMap = EmptyMap]

updateSplitTunnel(s, params, tunnelDeviceName, tunnelDeviceLocalAddress, tunnelDeviceRemoteAddress, excludedApps, vpnOnlyApps) ==
    updateApps(updateNetwork(s, params, tunnelDeviceName, tunnelDeviceLocalAddress,
                             tunnelDeviceRemoteAddress),
               excludedApps, vpnOnlyApps)

\* a shutdownConnection that keeps the stored network scan
shutdownConnectionKeepScan(s) ==
    LET s1 == [s EXCEPT !.readNotifier = NoFd]
        s2 == IF s1.sockFd # NoFd
              THEN [s1 EXCEPT !.openSocks = @ \ {s1.sockFd}, !.events = <<>>]
              ELSE s1
        s3 == removeAllApps(teardownFirewall(s2))
        s4 == removeRoutingPolicyForSourceIp(s3, s3.previousNetScan.ipAddress, kRtableName)
        s5 == removeRoutingPolicyForSourceIp(s4, s4.previousTunnelDeviceLocalAddress,
                                             kVpnOnlyRtableName)
        s6 == teardownReversePathFiltering(s5)
    IN [s6 EXCEPT !.sockFd = NoFd]

shutdownConnection(s) ==
    LET s1 == [s EXCEPT !.readNotifier = NoFd]
        s2 == IF s1.sockFd # NoFd
              THEN [s1 EXCEPT !.openSocks = @ \ {s1.sockFd}, !.events = <<>>]
              ELSE s1
        s3 == removeAllApps(teardownFirewall(s2))
        s4 == removeRoutingPolicyForSourceIp(s3, s3.previousNetScan.ipAddress, kRtableName)
        s5 == removeRoutingPolicyForSourceIp(s4, s4.previousTunnelDeviceLocalAddress,
                                             kVpnOnlyRtableName)
        s6 == teardownReversePathFiltering(s5)
    IN [s6 EXCEPT !.previousNetScan = NoScan, !.sockFd = NoFd]

\* ::socket, ::bind and subscribeToProcEvents of initiateConnection; outcome is
\* "ok" or the call that fails.  Yields the state and the subscribed socket (or -1).
Outcomes == {"ok", "socket", "bind", "subscribe"}

\* a failed bind or subscribe that does not close the socket
openNetlinkLeak(s, outcome) ==
    LET free == Fds \ s.openSocks
    IN IF outcome = "socket" \/ free = {}
       THEN [s |-> s, sock |-> NoFd]
       ELSE LET sock == CHOOSE f \in free : \A g \in free : f <= g
            IN IF outcome = "ok"
               THEN [s |-> [s EXCEPT !.openSocks = @ \cup {sock}], sock |-> sock]
               ELSE [s |-> [s EXCEPT !.openSocks = @ \cup {sock}], sock |-> NoFd]

openNetlink(s, outcome) ==
    LET free == Fds \ s.openSocks
    IN IF outcome = "socket" \/ free = {}
       THEN [s |-> s, sock |-> NoFd]
       ELSE LET sock == CHOOSE f \in free : \A g \in free : f <= g
            IN IF outcome = "ok"
               THEN [s |-> [s EXCEPT !.openSocks = @ \cup {sock}], sock |-> sock]
               ELSE [s |-> s, sock |-> NoFd]

\* an initiateConnection that enables the firewall anchors before it opens the socket
initiateConnectionEager(s, params, tunnelDeviceName, tunnelDeviceLocalAddress, tunnelDeviceRemoteAddress, outcome, sysctlOk) ==
    LET s0 == IF s.sockFd # NoFd THEN shutdownConnection(s) ELSE s
        o == openNetlink(setupFirewall(s0), outcome)
    IN IF o.sock = NoFd THEN o.s
       ELSE LET s1 == [o.s EXCEPT !.sockFd = o.sock]
                s2 == updateSplitTunnel(s1, params, tunnelDeviceName,
                                        tunnelDeviceLocalAddress,
                                        tunnelDeviceRemoteAddress,
                                        params.excludeApps, params.vpnOnlyApps)
                s3 == setupReversePathFiltering(s2, sysctlOk)
            IN [s3 EXCEPT !.readNotifier = o.sock]

initiateConnection(s, params, tunnelDeviceName, tunnelDeviceLocalAddress, tunnelDeviceRemoteAddress, outcome, sysctlOk) ==
    LET s0 == IF s.sockFd # NoFd THEN shutdownConnection(s) ELSE s
        o == openNetlink(s0, outcome)
    IN IF o.sock = NoFd THEN o.s
       ELSE LET s1 == setupFirewall([o.s EXCEPT !.sockFd = o.sock])
                s2 == updateSplitTunnel(s1, params, tunnelDeviceName,
                                        tunnelDeviceLocalAddress,
                                        tunnelDeviceRemoteAddress,
                                        params.excludeApps, params.vpnOnlyApps)
                s3 == setupReversePathFiltering(s2, sysctlOk)
            IN [s3 EXCEPT !.readNotifier = o.sock]

\* a removeTerminatedApp that only looks through ExclusionsMap
removeTerminatedAppFirstMap(s, pid) ==
    [s EXCEPT !.exclusionsMap = [a \in DOMAIN @ |-> @[a] \ {pid}]]

removeTerminatedApp(s, pid) ==
    [s EXCEPT !.exclusionsMap = [a \in DOMAIN @ |-> @[a] \ {pid}],
              !.vpnOnlyMap = [a \in DOMAIN @ |-> @[a] \ {pid}]]

\* an addLaunchedApp that records the pid and leaves the cgroup files alone
addLaunchedAppMapOnly(s, pid) ==
    LET appName == pathForPid(pid)
    IN IF appName = "" THEN s
       ELSE IF appName \in DOMAIN s.exclusionsMap
       THEN IF isValid(s.previousNetScan)
            THEN [s EXCEPT !.exclusionsMap[appName] = @ \cup {pid}]
            ELSE s
       ELSE IF appName \in DOMAIN s.vpnOnlyMap
       THEN [s EXCEPT !.vpnOnlyMap[appName] = @ \cup {pid}]
       ELSE s

addLaunchedApp(s, pid) ==
    LET appName == pathForPid(pid)
    IN IF appName = "" THEN s
       ELSE IF appName \in DOMAIN s.exclusionsMap
       THEN IF isValid(s.previousNetScan)
            THEN [s EXCEPT !.exclusionsMap[appName] = @ \cup {pid},
                           !.cgroup = addPidToCgroup(@, pid, VpnExclusionsFile)]
            ELSE s
       ELSE IF appName \in DOMAIN s.vpnOnlyMap
       THEN [s EXCEPT !.vpnOnlyMap[appName] = @ \cup {pid},
                      !.cgroup = addPidToCgroup(@, pid, VpnOnlyFile)]
       ELSE s

\* one message is received and dispatched on its proc_event::what
readFromSocket(s) ==
    LET message == Head(s.events)
        s1 == [s EXCEPT !.events = Tail(@)]
    IN IF message.what = "PROC_EVENT_EXEC" THEN addLaunchedApp(s1, message.pid)
       ELSE IF message.what = "PROC_EVENT_EXIT" THEN removeTerminatedApp(s1, message.pid)
       ELSE s1

\* ------------------------------------------------------------ actions
\* FirewallParams the daemon supplies: the excluded and vpn-only lists are
\* disjoint sets of paths
AppLists == {l \in [excludeApps : SUBSET Paths, vpnOnlyApps : SUBSET Paths] :
                l.excludeApps \cap l.vpnOnlyApps = {}}

MakeParams(scan, l) ==
    [splitTunnelNetScan |-> scan, excludeApps |-> l.excludeApps,
     vpnOnlyApps |-> l.vpnOnlyApps]

Init ==
    /\ alive = {}
    /\ exe = [p \in AllPids |-> ""]
    /\ ppid = [p \in AllPids |-> 0]
    /\ cgroup = [p \in AllPids |-> ParentVpnExclusionsFile]
    /\ rules = [t \in Tables |-> [a \in Addresses |-> 0]]
    /\ peakRules = [t \in Tables |-> 0]
    /\ routes = [t \in Tables |-> <<>>]
    /\ anchors = {}
    /\ transIp = {}
    /\ rpFilter \in RpValues
    /\ openSocks = {}
    /\ events = <<>>
    /\ sockFd = NoFd
    /\ readNotifier = NoFd
    /\ exclusionsMap = EmptyMap
    /\ vpnOnlyMap = EmptyMap
    /\ previousNetScan = NoScan
    /\ previousTunnelDeviceLocalAddress = ""
    /\ previousRPFilter = ""
    /\ stack = <<>>
    /\ lastOp = "init"

InitiateConnection(scan, l, tun, outcome, sysctlOk) ==
    /\ Commit(initiateConnection(Cur, MakeParams(scan, l), tun.dev, tun.local,
                                 tun.remote, outcome, sysctlOk))
    /\ lastOp' = "initiateConnection"
    /\ UNCHANGED <<procVars, stack>>

UpdateSplitTunnel(scan, l, tun) ==
    /\ Commit(updateSplitTunnel(Cur, MakeParams(scan, l), tun.dev, tun.local,
                                tun.remote, l.excludeApps, l.vpnOnlyApps))
    /\ lastOp' = "updateSplitTunnel"
    /\ UNCHANGED <<procVars, stack>>

ShutdownConnection ==
    /\ Commit(shutdownConnection(Cur))
    /\ lastOp' = "shutdownConnection"
    /\ UNCHANGED <<procVars, stack>>

\* QSocketNotifier::activated: the socket is readable
ReadFromSocket ==
    /\ readNotifier # NoFd
    /\ events # <<>>
    /\ Commit(readFromSocket(Cur))
    /\ lastOp' = "readFromSocket"
    /\ UNCHANGED <<procVars, stack>>

\* The kernel multicasts a proc event to a subscribed socket, or drops it
\* (always when the socket buffer is full)
Deliver(what, pid, lost) ==
    events' = IF sockFd # NoFd /\ ~lost /\ Len(events) < MaxQueue
              THEN Append(events, [what |-> what, pid |-> pid])
              ELSE events

EnvUnchanged ==
    UNCHANGED <<rules, peakRules, routes, anchors, transIp, openSocks, sockFd,
                readNotifier, exclusionsMap, vpnOnlyMap, previousNetScan,
                previousTunnelDeviceLocalAddress, previousRPFilter, stack>>

\* a process outside Pids forks and the child execs path
Spawn(pid, path, lost) ==
    /\ pid \notin alive
    /\ alive' = alive \cup {pid}
    /\ exe' = [exe EXCEPT ![pid] = path]
    /\ ppid' = [ppid EXCEPT ![pid] = 0]
    /\ cgroup' = [cgroup EXCEPT ![pid] = ParentVpnExclusionsFile]
    /\ Deliver("PROC_EVENT_EXEC", pid, lost)
    /\ lastOp' = "env"
    /\ UNCHANGED rpFilter /\ EnvUnchanged

\* fork(2): the child inherits the executable and the cgroup of its parent
Fork(parent, child, lost) ==
    /\ parent \in alive
    /\ child \notin alive
    /\ alive' = alive \cup {child}
    /\ exe' = [exe EXCEPT ![child] = exe[parent]]
    /\ ppid' = [ppid EXCEPT ![child] = parent]
    /\ cgroup' = [cgroup EXCEPT ![child] = cgroup[parent]]
    /\ Deliver("PROC_EVENT_FORK", child, lost)
    /\ lastOp' = "env"
    /\ UNCHANGED rpFilter /\ EnvUnchanged

Exec(pid, path, lost) ==
    /\ pid \in alive
    /\ exe' = [exe EXCEPT ![pid] = path]
    /\ Deliver("PROC_EVENT_EXEC", pid, lost)
    /\ lastOp' = "env"
    /\ UNCHANGED <<alive, ppid, cgroup, rpFilter>> /\ EnvUnchanged

\* exit: the kernel takes the process off its cgroup and reparents its children
Exit(pid, lost) ==
    /\ pid \in alive
    /\ alive' = alive \ {pid}
    /\ exe' = [exe EXCEPT ![pid] = ""]
    /\ ppid' = [p \in AllPids |-> IF p = pid \/ ppid[p] = pid THEN 0 ELSE ppid[p]]
    /\ cgroup' = [cgroup EXCEPT ![pid] = ParentVpnExclusionsFile]
    /\ Deliver("PROC_EVENT_EXIT", pid, lost)
    /\ lastOp' = "env"
    /\ UNCHANGED rpFilter /\ EnvUnchanged

\* net.ipv4.conf.all.rp_filter is changed by someone else
SetRpFilter(v) ==
    /\ v # rpFilter
    /\ rpFilter' = v
    /\ lastOp' = "env"
    /\ UNCHANGED <<alive, exe, ppid, cgroup, events>> /\ EnvUnchanged

\* Choices for a proc event: lost or not, when the socket could take it
Loss == IF sockFd # NoFd /\ Len(events) < MaxQueue THEN BOOLEAN ELSE {TRUE}

NoApps == [excludeApps |-> {}, vpnOnlyApps |-> {}]

\* Processes, events and the two maps, with a network scan that is valid or not;
\* the tunnel is not known and rp_filter is loose already
AppScans == {NoScan, ScanEth}

Next ==
    \/ \E scan \in AppScans, l \in AppLists :
          InitiateConnection(scan, l, NoTunnel, "ok", TRUE)
    \/ \E outcome \in Outcomes \ {"ok"} :
          InitiateConnection(NoScan, NoApps, NoTunnel, outcome, TRUE)
    \/ \E scan \in AppScans, l \in AppLists : UpdateSplitTunnel(scan, l, NoTunnel)
    \/ ShutdownConnection
    \/ ReadFromSocket
    \/ \E pid \in Pids, path \in Paths, lost \in Loss : Spawn(pid, path, lost)
    \/ \E parent \in Pids, child \in Pids, lost \in Loss : Fork(parent, child, lost)
    \/ \E pid \in Pids, path \in Paths, lost \in Loss : Exec(pid, path, lost)
    \/ \E pid \in Pids, lost \in Loss : Exit(pid, lost)

InitLoose == Init /\ rpFilter = "2"

Spec == InitLoose /\ [][Next]_vars

\* The network side: every scan and tunnel, socket and sysctl failures, rp_filter
\* changed from outside; no processes
NetAppLists == {l \in AppLists : l.vpnOnlyApps = {}}

NextNet ==
    \/ \E scan \in NetScans, l \in NetAppLists, tun \in Tunnels, outcome \in Outcomes,
          sysctlOk \in BOOLEAN :
          InitiateConnection(scan, l, tun, outcome, sysctlOk)
    \/ \E scan \in NetScans, l \in NetAppLists, tun \in Tunnels :
          UpdateSplitTunnel(scan, l, tun)
    \/ ShutdownConnection
    \/ \E v \in RpValues : SetRpFilter(v)

SpecNet == Init /\ [][NextNet]_vars

\* The process tree: three pids, so that a tracked process has grandchildren;
\* no session is started, so no proc event is delivered
NextTree ==
    \/ \E l \in AppLists : UpdateSplitTunnel(ScanEth, l, NoTunnel)
    \/ \E pid \in TreePids, path \in Paths, lost \in Loss : Spawn(pid, path, lost)
    \/ \E parent \in TreePids, child \in TreePids, lost \in Loss :
          Fork(parent, child, lost)
    \/ \E pid \in TreePids, path \in Paths, lost \in Loss : Exec(pid, path, lost)
    \/ \E pid \in TreePids, lost \in Loss : Exit(pid, lost)

SpecTree == InitLoose /\ [][NextTree]_vars

\* ------------------------------------------- the recursion, call by call
\* addPidToCgroup and removePidFromCgroup followed one call at a time: every
\* call writes its pid, reads the children of the pid from /proc at that
\* moment and loops over them, and processes fork and exit between the calls
RecursionUnchanged ==
    UNCHANGED <<alive, exe, ppid, rules, peakRules, routes, anchors, transIp, rpFilter,
                openSocks, events, sockFd, readNotifier, exclusionsMap, vpnOnlyMap,
                previousNetScan, previousTunnelDeviceLocalAddress, previousRPFilter>>

\* the frame of a call for pid: the children still to be visited by the loop of
\* addChildPidsToCgroup / removeChildPidsFromCgroup
CallFrame(call, pid, cGroupPath) ==
    [call |-> call, pid |-> pid, cGroupPath |-> cGroupPath, todo |-> childPidsOf(pid)]

\* addApps or addLaunchedApp calls addPidToCgroup for a pid
AddPidToCgroup(pid, cGroupPath) ==
    /\ stack = <<>>
    /\ pid \in alive
    /\ cgroup' = writePidToCGroup(cgroup, pid, cGroupPath)
    /\ stack' = <<CallFrame("addPidToCgroup", pid, cGroupPath)>>
    /\ lastOp' = "addPidToCgroup"
    /\ RecursionUnchanged

\* removeApps calls removePidFromCgroup for a recorded pid
RemovePidFromCgroup(pid) ==
    /\ stack = <<>>
    /\ pid \in alive
    /\ cgroup' = writePidToCGroup(cgroup, pid, ParentVpnExclusionsFile)
    /\ stack' = <<CallFrame("removePidFromCgroup", pid, ParentVpnExclusionsFile)>>
    /\ lastOp' = "removePidFromCgroup"
    /\ RecursionUnchanged

\* the loop of the innermost call takes its next child and calls itself for it
VisitChild ==
    /\ stack # <<>>
    /\ Len(stack) < MaxDepth
    /\ LET top == stack[Len(stack)]
       IN \E pid \in top.todo :
              /\ cgroup' = writePidToCGroup(cgroup, pid, top.cGroupPath)
              /\ stack' = Append([stack EXCEPT ![Len(stack)].todo = @ \ {pid}],
                                 CallFrame(top.call, pid, top.cGroupPath))
    /\ UNCHANGED lastOp
    /\ RecursionUnchanged

\* the loop of the innermost call is done and the call returns
ReturnCall ==
    /\ stack # <<>>
    /\ stack[Len(stack)].todo = {}
    /\ stack' = SubSeq(stack, 1, Len(stack) - 1)
    /\ UNCHANGED <<cgroup, lastOp>>
    /\ RecursionUnchanged

NextScan ==
    \/ \E pid \in Pids, file \in {VpnExclusionsFile, VpnOnlyFile} :
          AddPidToCgroup(pid, file)
    \/ \E pid \in Pids : RemovePidFromCgroup(pid)
    \/ VisitChild
    \/ ReturnCall
    \/ \E pid \in Pids, path \in Paths, lost \in Loss : Spawn(pid, path, lost)
    \/ \E parent \in Pids, child \in Pids, lost \in Loss : Fork(parent, child, lost)
    \/ \E pid \in Pids, lost \in Loss : Exit(pid, lost)

SpecScan == InitLoose /\ [][NextScan]_vars

\* ------------------------------------------------------------- claims
\* the operations the daemon and the event loop call
PublicOps == {"initiateConnection", "updateSplitTunnel", "shutdownConnection",
              "readFromSocket"}

\* C1: after shutdownConnection returns, no live pid is in the exclusions cgroup
\* or in the vpn-only cgroup
C1_ShutdownEmptiesCgroups ==
    lastOp = "shutdownConnection" =>
        \A pid \in alive : cgroup[pid] = ParentVpnExclusionsFile

\* C2: after every public operation, no pid is in a pid set of ExclusionsMap and
\* also in a pid set of VpnOnlyMap
C2_MapsDisjoint ==
    lastOp \in PublicOps => mapPids(exclusionsMap) \cap mapPids(vpnOnlyMap) = {}

\* C3: whenever the stored network scan is invalid, ExclusionsMap has no entries
C3_Gating == ~isValid(previousNetScan) => DOMAIN exclusionsMap = {}

\* C3 witness: excluded apps with a live pid are tracked, and updateSplitTunnel
\* with an invalid scan and a non-empty excluded list leaves ExclusionsMap empty
C3_Witness ==
    /\ mapPids(exclusionsMap) \cap alive # {}
    /\ LET l == [excludeApps |-> DOMAIN exclusionsMap, vpnOnlyApps |-> {}]
           s == updateSplitTunnel(Cur, MakeParams(NoScan, l), "", "", "",
                                  l.excludeApps, l.vpnOnlyApps)
       IN s.exclusionsMap = EmptyMap /\ ~isValid(s.previousNetScan)

\* C4: after every public operation, a pid recorded under a path of ExclusionsMap
\* is dead or runs that path
C4_PathScoping ==
    lastOp \in PublicOps =>
        \A path \in DOMAIN exclusionsMap : \A pid \in exclusionsMap[path] :
            pid \notin alive \/ pathForPid(pid) = path

\* C5: no routing table ever holds more than one source-IP rule of the engine,
\* the steps inside updateNetwork included (peakRules records them)
C5_RuleUniqueness ==
    \A t \in Tables : peakRules[t] <= 1 /\ RuleCount(rules, t) <= 1

\* C5 witness: both tables hold a rule, and updateSplitTunnel with another
\* physical address and another tunnel address replaces each by the new one
C5_Witness ==
    /\ rules[kRtableName]["ip1"] = 1
    /\ rules[kVpnOnlyRtableName]["t1"] = 1
    /\ LET s == updateSplitTunnel(Cur, MakeParams(ScanWlan, NoApps), "tun0", "t2",
                                  "r1", {}, {})
       IN /\ s.rules[kRtableName] = [a \in Addresses |-> IF a = "ip2" THEN 1 ELSE 0]
          /\ s.rules[kVpnOnlyRtableName] =
                 [a \in Addresses |-> IF a = "t2" THEN 1 ELSE 0]
          /\ \A t \in Tables : s.peakRules[t] = 1

\* what the kernel shows of the engine's work; an anchor that is not enabled
\* contributes no rules
Masquerade(s) == IF "100.transIp" \in s.anchors THEN s.transIp ELSE {}

KernelState(s) ==
    [cgroup |-> s.cgroup, rules |-> s.rules, routes |-> s.routes,
     tagPkts |-> "100.tagPkts" \in s.anchors, masquerade |-> Masquerade(s),
     rpFilter |-> s.rpFilter]

\* C6: from Idle, initiateConnection followed by shutdownConnection leaves the
\* kernel state (cgroups, source-IP rules, default routes of both tables, the
\* two anchors, rp_filter) as it was
C6_RoundTrip ==
    sockFd = NoFd =>
        \A scan \in NetScans, l \in NetAppLists, tun \in Tunnels, sysctlOk \in BOOLEAN :
            KernelState(shutdownConnection(
                initiateConnection(Cur, MakeParams(scan, l), tun.dev, tun.local,
                                   tun.remote, "ok", sysctlOk)))
                = KernelState(Cur)

Observable(s) ==
    [cgroup |-> s.cgroup, rules |-> s.rules, routes |-> s.routes,
     masquerade |-> Masquerade(s), exclusionsMap |-> s.exclusionsMap,
     vpnOnlyMap |-> s.vpnOnlyMap]

\* C7: with /proc unchanged and no event handled in between, a second
\* updateSplitTunnel with the same parameters changes neither the kernel state
\* nor the maps
C7_UpdateIdempotent ==
    \A scan \in AppScans, l \in AppLists :
        LET once == updateSplitTunnel(Cur, MakeParams(scan, l), "", "", "",
                                      l.excludeApps, l.vpnOnlyApps)
            twice == updateSplitTunnel(once, MakeParams(scan, l), "", "", "",
                                       l.excludeApps, l.vpnOnlyApps)
        IN Observable(twice) = Observable(once)

\* C8: the only netlink socket of the engine that is open is the one in
\* _sockFd, the read notifier watches no other socket, and after
\* shutdownConnection there is none
C8_OneSocket ==
    /\ openSocks = IF sockFd = NoFd THEN {} ELSE {sockFd}
    /\ readNotifier \in {NoFd, sockFd}
    /\ lastOp = "shutdownConnection" =>
           sockFd = NoFd /\ openSocks = {} /\ readNotifier = NoFd

\* C8 witness: a session is active and initiateConnection is called again; the
\* new session holds the one open socket
C8_Witness ==
    /\ sockFd # NoFd
    /\ readNotifier = sockFd
    /\ LET s == initiateConnection(Cur, MakeParams(ScanEth, NoApps), "tun0", "t1",
                                   "r1", "ok", TRUE)
       IN s.sockFd # NoFd /\ s.openSocks = {s.sockFd} /\ s.readNotifier = s.sockFd

\* a step of initiateConnection in which socket, bind or subscribe failed
FailedInitiate == lastOp' = "initiateConnection" /\ sockFd' = NoFd

OtherState(s) ==
    [cgroup |-> s.cgroup, rules |-> s.rules, routes |-> s.routes,
     anchors |-> s.anchors, transIp |-> s.transIp, rpFilter |-> s.rpFilter,
     exclusionsMap |-> s.exclusionsMap, vpnOnlyMap |-> s.vpnOnlyMap,
     previousNetScan |-> s.previousNetScan,
     previousTunnelDeviceLocalAddress |-> s.previousTunnelDeviceLocalAddress,
     previousRPFilter |-> s.previousRPFilter]

\* C9 as claimed: a failed initiateConnection leaves no session and every other
\* piece of state as it was before the call
C9_FailedInitiateKeepsState ==
    [][FailedInitiate =>
           /\ sockFd' = NoFd /\ readNotifier' = NoFd
           /\ OtherState(Cur') = OtherState(Cur)]_vars

\* C9 amended: a failed initiateConnection leaves no session and changes nothing
\* when no session was active; when one was, the state is the one
\* shutdownConnection leaves
C9_FailedInitiateOnlyShutsDown ==
    [][FailedInitiate =>
           /\ sockFd' = NoFd /\ readNotifier' = NoFd
           /\ Cur' = IF sockFd # NoFd THEN shutdownConnection(Cur) ELSE Cur]_vars

\* C9 witness: initiateConnection failed with no session active, and the scan
\* and the exclusions an earlier updateSplitTunnel stored are still there
C9_Witness ==
    /\ lastOp = "initiateConnection"
    /\ sockFd = NoFd
    /\ isValid(previousNetScan)
    /\ DOMAIN exclusionsMap # {}

\* C10: updateSplitTunnel leaves VpnOnlyMap with the paths of the vpn-only list,
\* ExclusionsMap with the paths of the excluded list if the supplied scan is
\* valid and with none otherwise, and under every path the live pids running it
C10_UpdateRederives ==
    \A scan \in AppScans, l \in AppLists :
        LET s == updateSplitTunnel(Cur, MakeParams(scan, l), "", "", "",
                                   l.excludeApps, l.vpnOnlyApps)
        IN /\ DOMAIN s.vpnOnlyMap = l.vpnOnlyApps
           /\ DOMAIN s.exclusionsMap = IF isValid(scan) THEN l.excludeApps ELSE {}
           /\ \A a \in DOMAIN s.vpnOnlyMap :
                  s.vpnOnlyMap[a] = {pid \in alive : exe[pid] = a}
           /\ \A a \in DOMAIN s.exclusionsMap :
                  s.exclusionsMap[a] = {pid \in alive : exe[pid] = a}

\* C10 witness: after lost events a map records a pid that has exited and misses
\* a live pid of a tracked path, and updateSplitTunnel with the same lists
\* records exactly the live pids
C10_Witness ==
    /\ \E a \in DOMAIN vpnOnlyMap : vpnOnlyMap[a] \ alive # {}
    /\ \E a \in DOMAIN exclusionsMap :
           {pid \in alive : exe[pid] = a} \ exclusionsMap[a] # {}
    /\ LET s == updateSplitTunnel(Cur, MakeParams(ScanEth, NoApps), "", "", "",
                                  DOMAIN exclusionsMap, DOMAIN vpnOnlyMap)
       IN /\ mapPids(s.vpnOnlyMap) \subseteq alive
          /\ \E a \in DOMAIN s.exclusionsMap : s.exclusionsMap[a] # {}

\* C11: updateSplitTunnel with an invalid network scan leaves ExclusionsMap
\* empty and no live pid that was in the exclusions cgroup still in it, while
\* VpnOnlyMap tracks every path of the vpn-only list with its live pids, all of
\* them in the vpn-only cgroup
C11_InvalidScanEvicts ==
    \A l \in AppLists :
        LET s == updateSplitTunnel(Cur, MakeParams(NoScan, l), "", "", "",
                                   l.excludeApps, l.vpnOnlyApps)
        IN /\ s.exclusionsMap = EmptyMap
           /\ \A pid \in alive :
                  cgroup[pid] = VpnExclusionsFile => s.cgroup[pid] # VpnExclusionsFile
           /\ DOMAIN s.vpnOnlyMap = l.vpnOnlyApps
           /\ \A a \in l.vpnOnlyApps :
                  /\ s.vpnOnlyMap[a] = pidsForPath(a)
                  /\ \A pid \in pidsForPath(a) : s.cgroup[pid] = VpnOnlyFile

\* a PROC_EVENT_EXEC message for pid
ExecEvent(pid) == [what |-> "PROC_EVENT_EXEC", pid |-> pid]

\* the state after the engine reads message from its socket
Handled(message) == readFromSocket([Cur EXCEPT !.events = <<message>>])

\* C12: handling an EXEC event for pid whose executable is p inserts pid into
\* ExclusionsMap[p] and the exclusions cgroup if p is a key of ExclusionsMap and
\* the stored scan is valid; else into VpnOnlyMap[p] and the vpn-only cgroup if
\* p is a key of VpnOnlyMap; otherwise (an empty path included) changes neither
\* map and no cgroup
C12_ExecDispatch ==
    \A pid \in Pids :
        LET p == pathForPid(pid)
            s == Handled(ExecEvent(pid))
        IN IF p \in DOMAIN exclusionsMap /\ isValid(previousNetScan)
           THEN /\ s.exclusionsMap = [exclusionsMap EXCEPT ![p] = @ \cup {pid}]
                /\ s.vpnOnlyMap = vpnOnlyMap
                /\ s.cgroup[pid] = VpnExclusionsFile
           ELSE IF p \in DOMAIN vpnOnlyMap
           THEN /\ s.vpnOnlyMap = [vpnOnlyMap EXCEPT ![p] = @ \cup {pid}]
                /\ s.exclusionsMap = exclusionsMap
                /\ s.cgroup[pid] = VpnOnlyFile
           ELSE /\ s.exclusionsMap = exclusionsMap
                /\ s.vpnOnlyMap = vpnOnlyMap
                /\ s.cgroup = cgroup

\* C12 witness: the socket holds the EXEC event of an untracked pid in the
\* default cgroup that runs an excluded path, another live pid runs a vpn-only
\* path and is untracked, and handling the event tracks the first pid and moves
\* it to the exclusions cgroup
C12_Witness ==
    /\ readNotifier # NoFd
    /\ events # <<>>
    /\ Head(events).what = "PROC_EVENT_EXEC"
    /\ LET pid == Head(events).pid
           p == pathForPid(pid)
           s == readFromSocket(Cur)
       IN /\ p \in DOMAIN exclusionsMap
          /\ pid \notin exclusionsMap[p]
          /\ cgroup[pid] = ParentVpnExclusionsFile
          /\ pid \in s.exclusionsMap[p]
          /\ s.cgroup[pid] = VpnExclusionsFile
    /\ \E other \in alive :
           /\ pathForPid(other) \in DOMAIN vpnOnlyMap
           /\ other \notin vpnOnlyMap[pathForPid(other)]
           /\ Handled(ExecEvent(other)).cgroup[other] = VpnOnlyFile

\* a PROC_EVENT_EXIT message for pid
ExitEvent(pid) == [what |-> "PROC_EVENT_EXIT", pid |-> pid]

\* proc events the engine is not interested in
OtherEvents == {"PROC_EVENT_NONE", "PROC_EVENT_FORK"}

\* everything but the two maps and the socket's buffer
Frame(s) ==
    [cgroup |-> s.cgroup, rules |-> s.rules, peakRules |-> s.peakRules,
     routes |-> s.routes, anchors |-> s.anchors, transIp |-> s.transIp,
     rpFilter |-> s.rpFilter, openSocks |-> s.openSocks, sockFd |-> s.sockFd,
     readNotifier |-> s.readNotifier, previousNetScan |-> s.previousNetScan,
     previousTunnelDeviceLocalAddress |-> s.previousTunnelDeviceLocalAddress,
     previousRPFilter |-> s.previousRPFilter]

\* C13: handling an EXIT event for pid takes pid out of every pid set of both
\* maps and changes nothing else (keys, other pids, cgroup files, rules, routes,
\* anchors, previous-state fields); handling any event other than EXEC and EXIT
\* changes nothing but the socket's buffer
C13_ExitFrame ==
    /\ \A pid \in Pids :
           LET s == Handled(ExitEvent(pid))
           IN /\ DOMAIN s.exclusionsMap = DOMAIN exclusionsMap
              /\ \A a \in DOMAIN exclusionsMap :
                     s.exclusionsMap[a] = exclusionsMap[a] \ {pid}
              /\ DOMAIN s.vpnOnlyMap = DOMAIN vpnOnlyMap
              /\ \A a \in DOMAIN vpnOnlyMap : s.vpnOnlyMap[a] = vpnOnlyMap[a] \ {pid}
              /\ Frame(s) = Frame(Cur)
    /\ \A what \in OtherEvents, pid \in Pids :
           Handled([what |-> what, pid |-> pid]) = [Cur EXCEPT !.events = <<>>]

\* C13 witness: both maps record a pid, the socket holds the EXIT event of the
\* one in VpnOnlyMap, and handling it leaves that map without the pid and the
\* other map as it is
C13_Witness ==
    /\ readNotifier # NoFd
    /\ events # <<>>
    /\ Head(events).what = "PROC_EVENT_EXIT"
    /\ Head(events).pid \in mapPids(vpnOnlyMap)
    /\ mapPids(exclusionsMap) \ {Head(events).pid} # {}
    /\ LET s == readFromSocket(Cur)
       IN /\ Head(events).pid \notin mapPids(s.vpnOnlyMap)
          /\ s.exclusionsMap = exclusionsMap
          /\ s.cgroup = cgroup

CgroupFiles == {VpnExclusionsFile, VpnOnlyFile, ParentVpnExclusionsFile}

\* the pids of S and their descendants (children, grandchildren, ...) in /proc
RECURSIVE WithDescendants(_)
WithDescendants(S) ==
    LET next == S \cup {pid \in alive : ppid[pid] \in S}
    IN IF next = S THEN S ELSE WithDescendants(next)

\* C14: addPidToCgroup(pid, file) leaves pid and every descendant of pid in
\* /proc listed in file, whatever they execute; and after addApps for the
\* excluded paths every running pid of such a path and all its descendants are
\* in the exclusions cgroup
C14_DescendantCapture ==
    /\ \A pid \in alive, file \in CgroupFiles :
           \A d \in WithDescendants({pid}) :
               addPidToCgroup(cgroup, pid, file)[d] = file
    /\ \A apps \in SUBSET Paths :
           LET s == addApps(Cur, apps, "exclusionsMap", VpnExclusionsFile)
           IN \A a \in apps : \A d \in WithDescendants(pidsForPath(a)) :
                  s.cgroup[d] = VpnExclusionsFile

\* C14 witness: a process running /a has a child and a grandchild that run
\* /b, none of them in the exclusions cgroup, and updateSplitTunnel with /a
\* excluded puts all three there
C14_Witness ==
    \E p \in alive, c \in alive, g \in alive :
        /\ ppid[c] = p /\ ppid[g] = c
        /\ exe[p] = "/a" /\ exe[c] = "/b" /\ exe[g] = "/b"
        /\ \A pid \in {p, c, g} : cgroup[pid] = ParentVpnExclusionsFile
        /\ LET s == updateSplitTunnel(Cur, MakeParams(ScanEth, NoApps), "", "", "",
                                      {"/a"}, {})
           IN \A pid \in {p, c, g} : s.cgroup[pid] = VpnExclusionsFile

\* the bypass side of the kernel state is the one scan asks for
BypassReflects(s, scan) ==
    /\ s.transIp = {scan.interfaceName, "tun+"}
    /\ s.routes[kRtableName] = <<scan.gatewayIp, scan.interfaceName>>
    /\ s.rules[kRtableName][scan.ipAddress] >= 1
    /\ s.sockFd # NoFd => "100.transIp" \in s.anchors

\* C15: after updateSplitTunnel or a successful initiateConnection with a valid
\* scan, the masquerade anchor holds the rules for the scan's interface and
\* tun+, the bypass table's default route is via the scan's gateway on the
\* scan's interface, and a source-IP rule binds the scan's address to the
\* bypass table
C15_BypassReflectsScan ==
    (/\ lastOp = "updateSplitTunnel" \/ (lastOp = "initiateConnection" /\ sockFd # NoFd)
     /\ isValid(previousNetScan))
        => BypassReflects(Cur, previousNetScan)

\* C15 witness: a session started by initiateConnection runs on eth0 with a
\* tunnel, and updateSplitTunnel with the scan of wlan0 moves the anchor, the
\* route and the rule to wlan0
C15_Witness ==
    /\ lastOp = "initiateConnection"
    /\ sockFd # NoFd
    /\ previousNetScan = ScanEth
    /\ previousTunnelDeviceLocalAddress = "t1"
    /\ BypassReflects(Cur, ScanEth)
    /\ LET s == updateSplitTunnel(Cur, MakeParams(ScanWlan, NoApps), "", "", "", {}, {})
       IN /\ BypassReflects(s, ScanWlan)
          /\ s.rules[kRtableName]["ip1"] = 0

\* C16: a session started from Idle that found rp_filter other than 2 (and
\* could read it) has shutdownConnection write the value it found; any other
\* session has shutdownConnection leave rp_filter as it is at that moment,
\* whatever was written to it during the session
C16_RpFilterPerSession ==
    sockFd = NoFd =>
        \A scan \in NetScans, tun \in Tunnels, sysctlOk \in BOOLEAN, v \in RpValues :
            LET started == initiateConnection(Cur, MakeParams(scan, NoApps), tun.dev,
                                              tun.local, tun.remote, "ok", sysctlOk)
                during == [started EXCEPT !.rpFilter = v]
            IN shutdownConnection(during).rpFilter =
                   IF sysctlOk /\ toInt(rpFilter) # 2 THEN rpFilter ELSE v

\* C17: after shutdownConnection returns, the stored previous network scan and
\* the stored previous tunnel local address are empty
C17_ShutdownClearsPrevious ==
    lastOp = "shutdownConnection" =>
        previousNetScan = NoScan /\ previousTunnelDeviceLocalAddress = ""

\* C18: while a session is active, after updateSplitTunnel or initiateConnection
\* returned with a non-empty tunnel local address, a source-IP rule binds that
\* address to the vpn-only table
C18_TunnelRuleInstalled ==
    (/\ sockFd # NoFd
     /\ lastOp \in {"updateSplitTunnel", "initiateConnection"}
     /\ previousTunnelDeviceLocalAddress # "")
        => rules[kVpnOnlyRtableName][previousTunnelDeviceLocalAddress] >= 1

\* C19: after updateSplitTunnel with a valid scan and disjoint lists, every live
\* pid recorded in ExclusionsMap is in the exclusions cgroup and every live pid
\* recorded in VpnOnlyMap is in the vpn-only cgroup
C19_MapsMatchCgroups ==
    \A l \in AppLists :
        LET s == updateSplitTunnel(Cur, MakeParams(ScanEth, l), "", "", "",
                                   l.excludeApps, l.vpnOnlyApps)
        IN /\ \A pid \in mapPids(s.exclusionsMap) \cap alive :
                  s.cgroup[pid] = VpnExclusionsFile
           /\ \A pid \in mapPids(s.vpnOnlyMap) \cap alive :
                  s.cgroup[pid] = VpnOnlyFile

\* the state after the engine, in state s, reads message from its socket
HandledIn(s, message) == readFromSocket([s EXCEPT !.events = <<message>>])

\* the paths the engine tracks
TrackedPaths == DOMAIN exclusionsMap \cup DOMAIN vpnOnlyMap

\* C20: for a process running a tracked path and a descendant of it, handling
\* the EXEC events of the two in either order ends with the same cgroup
\* membership and the same maps
C20_ExecOrderInsensitive ==
    \A parent \in alive : \A child \in WithDescendants({parent}) \ {parent} :
        pathForPid(parent) \in TrackedPaths =>
            LET parentFirst == HandledIn(Handled(ExecEvent(parent)), ExecEvent(child))
                childFirst == HandledIn(Handled(ExecEvent(child)), ExecEvent(parent))
            IN /\ parentFirst.cgroup = childFirst.cgroup
               /\ parentFirst.exclusionsMap = childFirst.exclusionsMap
               /\ parentFirst.vpnOnlyMap = childFirst.vpnOnlyMap

\* C21: the descendant recursion of addPidToCgroup and removePidFromCgroup is
\* bounded in depth: it is never deeper than there are process ids, also when
\* the parent relation changes between the reads of /proc
C21_RecursionBounded == Len(stack) <= MaxPid

====
